---- MODULE Spec2Model ----
(***************************************************************************)
(* Model of src/app.py: the Streamlit dashboard that keeps three CSV files *)
(* (players, companies, model portfolios), edits them through the Admin    *)
(* tab's load-then-save handlers and derives vote statistics in the        *)
(* Insights tab.                                                           *)
(*                                                                         *)
(* Text is a sequence of one-character strings, so that str.split(','),    *)
(* str.strip() and ', '.join() are computed and not assumed.  A pandas NaN *)
(* cell is the value Null.  A DataFrame is the sequence of its rows, each  *)
(* row a function from column names to cells.                              *)
(***************************************************************************)
EXTENDS Integers, Sequences, FiniteSets, TLC

\* ---------------------------------------------------------------- bounds
MaxPlayers == 2
MaxCompanies == 2
MaxSelect == 2
MaxLead == 1
MaxCoLead == 0
MaxRaceSelect == 1
MaxRaceCompanies == 1
MaxPortfolios == 2
MaxPersonCount == 401
MaxFormPlayers == 3
MaxFormCompanies == 1
MaxFormSelect == 1
MaxPresses == 2

\* -------------------------------------------------------------- text cells
Null == <<"NaN">>

Comma == ","
Space == " "

\* notna taking a NaN cell for text.
notna_always(v) == TRUE

notna(v) == v # Null

\* Python truthiness of a text cell that is not NaN: the empty string is false.
truthy(v) == v # <<>>

RECURSIVE lstrip(_)
lstrip(s) ==
    IF s = <<>> THEN <<>>
    ELSE IF Head(s) = Space THEN lstrip(Tail(s)) ELSE s

RECURSIVE rstrip(_)
rstrip(s) ==
    IF s = <<>> THEN <<>>
    ELSE IF s[Len(s)] = Space THEN rstrip(SubSeq(s, 1, Len(s) - 1)) ELSE s

strip(s) == rstrip(lstrip(s))

\* Index of the first comma of s, 0 when there is none.
RECURSIVE find_comma(_, _)
find_comma(s, i) ==
    IF i > Len(s) THEN 0
    ELSE IF s[i] = Comma THEN i ELSE find_comma(s, i + 1)

\* str.split(','): every piece between commas, empty pieces included.
RECURSIVE split(_)
split(s) ==
    LET k == find_comma(s, 1)
    IN  IF k = 0 THEN <<s>>
        ELSE <<SubSeq(s, 1, k - 1)>> \o split(SubSeq(s, k + 1, Len(s)))

\* [c.strip() for c in s.split(',')]
RECURSIVE strip_all(_)
strip_all(parts) ==
    IF parts = <<>> THEN <<>>
    ELSE <<strip(Head(parts))>> \o strip_all(Tail(parts))

split_names(s) == strip_all(split(s))

\* ", ".join(names)
RECURSIVE join(_)
join(names) ==
    IF names = <<>> THEN <<>>
    ELSE IF Len(names) = 1 THEN names[1]
    ELSE names[1] \o <<Comma, Space>> \o join(Tail(names))

\* ------------------------------------------------------------- constants
Partner == <<"P">>
Analyst == <<"A">>
DESIGNATIONS == {Analyst, Partner}

FinTechPod == <<"F">>
DeepTechPod == <<"D">>
TEAMS == {FinTechPod, DeepTechPod}

Showcase == <<"S">>
IC == <<"I">>
Wired == <<"W">>
PIPELINE_STAGES == {Showcase, IC, Wired}

FOUNDER_ARCHETYPES == {<<"1">>}
SECTORS == {<<"f">>}
COMPANY_STAGES == {<<"t">>}
CHEQUE_OPTIONS == {<<"c">>}

PLAYER_COLUMNS == {"player_id", "player_name", "designation", "team"}
COMPANY_COLUMNS == {"company_id", "company_name", "pipeline_stage", "founder_archetype",
                    "sector", "company_stage", "cheque", "lead", "co_lead", "deal_team"}
PORTFOLIO_COLUMNS == {"player_id", "player_name", "designation", "companies"}

\* Columns pandas reads back as numbers; every other column is text.
NumericColumns == {"player_id", "company_id"}

\* -------------------------------------------------------- the CSV files
\* DataFrame.to_csv writes a NaN cell as the empty field.
to_csv_row(r) == [c \in DOMAIN r |-> IF c \in NumericColumns THEN r[c]
                                     ELSE IF r[c] = Null THEN <<>> ELSE r[c]]

\* pandas.read_csv reads an empty field as NaN.
read_csv_row(r) == [c \in DOMAIN r |-> IF c \in NumericColumns THEN r[c]
                                       ELSE IF r[c] = <<>> THEN Null ELSE r[c]]

save_csv(df) == [i \in 1..Len(df) |-> to_csv_row(df[i])]

\* A line of a file that pandas.read_csv cannot tokenize or decode is kept as a
\* row with this one field.
Unparsed == "unparsed"

\* pd.read_csv(path) returns: no line of the file makes it raise.
parses(file) == \A i \in 1..Len(file) : Unparsed \notin DOMAIN file[i]

\* load_csv on a file that exists, or that it has just created with its header:
\* the rows read, and the empty DataFrame when read_csv raises.
load_csv(file) ==
    IF parses(file) THEN [i \in 1..Len(file) |-> read_csv_row(file[i])] ELSE <<>>

\* ------------------------------------------------------ table utilities
Range(s) == {s[i] : i \in 1..Len(s)}

RECURSIVE SetMax(_)
SetMax(S) ==
    LET x == CHOOSE v \in S : TRUE
    IN  IF S = {x} THEN x
        ELSE LET m == SetMax(S \ {x}) IN IF x > m THEN x ELSE m

\* int(df[col].max() + 1) if len(df) else 1
\* next_id that starts over at 1 whatever the table holds.
next_id_always_1(df, col) == 1

next_id(df, col) == IF Len(df) > 0 THEN SetMax({df[i][col] : i \in 1..Len(df)}) + 1 ELSE 1

\* Duplicate-free sequences over S of length at most n: what a multiselect returns.
RECURSIVE Selections(_, _)
Selections(S, n) ==
    IF n = 0 \/ S = {} THEN {<<>>}
    ELSE {<<>>} \cup UNION {{<<x>> \o t : t \in Selections(S \ {x}, n - 1)} : x \in S}

get_partners(df) ==
    {df[i]["player_name"] : i \in {j \in 1..Len(df) :
        df[j]["designation"] = Partner /\ notna(df[j]["player_name"])}}

get_all_players_names(df) ==
    {df[i]["player_name"] : i \in {j \in 1..Len(df) : notna(df[j]["player_name"])}}

\* ------------------------------------------------- pandas building blocks
\* The cell pandas puts where a left join finds no partner: NaN.  A missing
\* count is NumNaN, kept apart from every real count.
NumNaN == -1
CountColumns == {"votes"}
NullOf(c) == IF c \in NumericColumns \cup CountColumns THEN NumNaN ELSE Null

Columns(df) == IF df = <<>> THEN {} ELSE DOMAIN df[1]

\* df[[cols]]
project(df, cols) == [i \in 1..Len(df) |-> [c \in cols |-> df[i][c]]]

\* left.merge(right, on=on, how='left'): every left row, in order, once per
\* right row with the same key and once with NaN cells when there is none.
\* A column other than the key that both sides have comes out twice, as
\* <name>_x (left) and <name>_y (right).
merge_row(l, r, rcols, on, matched) ==
    LET lcols == DOMAIN l
        both == (lcols \cap rcols) \ {on}
        lname == [c \in lcols |-> IF c \in both THEN c \o "_x" ELSE c]
        rname == [c \in rcols \ {on} |-> IF c \in both THEN c \o "_y" ELSE c]
        out == {lname[c] : c \in lcols} \cup {rname[c] : c \in rcols \ {on}}
    IN  [n \in out |->
            IF \E c \in lcols : lname[c] = n
            THEN l[CHOOSE c \in lcols : lname[c] = n]
            ELSE LET c == CHOOSE d \in rcols \ {on} : rname[d] = n
                 IN  IF matched THEN r[c] ELSE NullOf(c)]

RECURSIVE merge(_, _, _, _)
merge(left, right, rcols, on) ==
    IF left = <<>> THEN <<>>
    ELSE LET l == Head(left)
             hits == SelectSeq(right, LAMBDA r : r[on] = l[on])
             rows == IF hits = <<>>
                     THEN <<merge_row(l, l, rcols, on, FALSE)>>
                     ELSE [k \in 1..Len(hits) |-> merge_row(l, hits[k], rcols, on, TRUE)]
         IN  rows \o merge(Tail(left), right, rcols, on)

\* df.groupby(col).size(): the number of rows per distinct non-NaN key.
group_keys(df, col) == {df[i][col] : i \in {j \in 1..Len(df) : notna(df[j][col])}}
group_size(df, col, key) == Cardinality({i \in 1..Len(df) : df[i][col] = key})

RECURSIVE SetToSeq(_)
SetToSeq(S) ==
    IF S = {} THEN <<>>
    ELSE LET x == CHOOSE v \in S : TRUE IN <<x>> \o SetToSeq(S \ {x})

\* df.sort_values(col, ascending=False); rows with equal keys keep their order
\* (numpy sorts arrays this short by insertion).
RECURSIVE insert_desc(_, _, _)
insert_desc(sorted, row, col) ==
    IF sorted = <<>> THEN <<row>>
    ELSE IF Head(sorted)[col] >= row[col]
         THEN <<Head(sorted)>> \o insert_desc(Tail(sorted), row, col)
         ELSE <<row>> \o sorted

RECURSIVE sort_desc(_, _)
sort_desc(df, col) ==
    IF df = <<>> THEN <<>>
    ELSE insert_desc(sort_desc(SubSeq(df, 1, Len(df) - 1), col), df[Len(df)], col)

\* --------------------------------------------------- the Insights pipeline
\* entry_votes with a filter that drops the empty pieces of the company list.
entry_votes_skip_blank(portfolio) ==
    LET companies_str == portfolio["companies"]
    IN  IF notna(companies_str) /\ truthy(companies_str)
        THEN LET voted_companies == SelectSeq(split_names(companies_str), LAMBDA c : c # <<>>)
             IN  [k \in 1..Len(voted_companies) |->
                    [player_id |-> portfolio["player_id"],
                     player_name |-> portfolio["player_name"],
                     designation |-> portfolio["designation"],
                     company_name |-> voted_companies[k]]]
        ELSE <<>>

\* The rows one portfolio entry adds to vote_data.
entry_votes(portfolio) ==
    LET companies_str == portfolio["companies"]
    IN  IF notna(companies_str) /\ truthy(companies_str)
        THEN LET voted_companies == split_names(companies_str)
             IN  [k \in 1..Len(voted_companies) |->
                    [player_id |-> portfolio["player_id"],
                     player_name |-> portfolio["player_name"],
                     designation |-> portfolio["designation"],
                     company_name |-> voted_companies[k]]]
        ELSE <<>>

RECURSIVE vote_data(_)
vote_data(portfolios_df) ==
    IF portfolios_df = <<>> THEN <<>>
    ELSE entry_votes(Head(portfolios_df)) \o vote_data(Tail(portfolios_df))

VoteCompanyColumns == {"company_name", "pipeline_stage", "sector", "cheque", "lead", "co_lead"}
VotePlayerColumns == {"player_name", "team"}

\* votes_df after the two guarded merges.
votes_merged(votes, companies_df, players_df) ==
    LET with_company == IF Len(votes) > 0
                        THEN merge(votes, project(companies_df, VoteCompanyColumns),
                                   VoteCompanyColumns, "company_name")
                        ELSE votes
    IN  IF Len(with_company) > 0
        THEN merge(with_company, project(players_df, VotePlayerColumns),
                   VotePlayerColumns, "player_name")
        ELSE with_company

\* votes_df.groupby('company_name').size().reset_index(name='votes')
company_votes(votes_df) ==
    LET keys == SetToSeq(group_keys(votes_df, "company_name"))
    IN  [k \in 1..Len(keys) |->
            [company_name |-> keys[k],
             votes |-> group_size(votes_df, "company_name", keys[k])]]

fillna0(df) == [i \in 1..Len(df) |->
                  [df[i] EXCEPT !["votes"] = IF @ = NumNaN THEN 0 ELSE @]]

\* all_companies with the zero-vote companies dropped, as an inner join does.
all_companies_inner(companies_df, votes_df) ==
    LET counted == sort_desc(company_votes(votes_df), "votes")
        joined == merge(project(companies_df, {"company_name"}), counted,
                        {"company_name", "votes"}, "company_name")
    IN  sort_desc(SelectSeq(joined, LAMBDA r : r["votes"] # NumNaN), "votes")

all_companies(companies_df, votes_df) ==
    LET counted == sort_desc(company_votes(votes_df), "votes")
        joined == merge(project(companies_df, {"company_name"}), counted,
                        {"company_name", "votes"}, "company_name")
    IN  sort_desc(fillna0(joined), "votes")

stage_analysis(companies_df, all_comp) ==
    fillna0(merge(companies_df, project(all_comp, {"company_name", "votes"}),
                  {"company_name", "votes"}, "company_name"))

\* The records one stage_analysis row adds to lead_votes (col = 'lead') or to
\* co_lead_votes (col = 'co_lead').
row_lead_votes(row, col) ==
    IF notna(row[col]) /\ truthy(row[col])
    THEN LET leads == split_names(row[col])
         IN  [k \in 1..Len(leads) |->
                [lead |-> leads[k],
                 pipeline_stage |-> row["pipeline_stage"],
                 votes |-> row["votes"],
                 company |-> row["company_name"]]]
    ELSE <<>>

RECURSIVE lead_votes(_, _)
lead_votes(stage_df, col) ==
    IF stage_df = <<>> THEN <<>>
    ELSE row_lead_votes(Head(stage_df), col) \o lead_votes(Tail(stage_df), col)

\* Series.mean() kept as the exact ratio it divides: the sum of the values
\* over their count.
RECURSIVE SeqSum(_)
SeqSum(values) == IF values = <<>> THEN 0 ELSE Head(values) + SeqSum(Tail(values))

series_mean(values) == [sum |-> SeqSum(values), count |-> Len(values)]

\* A plain number, which no division produced.
Literal(n) == [sum |-> n, count |-> 1]

\* votes_df.groupby('company_name').size().mean()
avg_votes_per_company(votes_df) ==
    LET sizes == company_votes(votes_df)
    IN  series_mean([k \in 1..Len(sizes) |-> sizes[k]["votes"]])

\* The order groupby leaves the three stage names in: sorted as strings.
stage_order_alphabetical == <<IC, Showcase, Wired>>

stage_order == <<Showcase, IC, Wired>>

\* pd.Categorical(..., categories=stage_order, ordered=True) and
\* sort_values('pipeline_stage'): the stages in the order of stage_order, then
\* the rows whose stage is no category (NaN after the conversion).
sorted_stages(df) ==
    LET keys == group_keys(df, "pipeline_stage")
        known == SelectSeq(stage_order, LAMBDA g : g \in keys)
        foreign == SetToSeq({g \in keys : \A k \in 1..Len(stage_order) : stage_order[k] # g})
    IN  [k \in 1..(Len(known) + Len(foreign)) |->
            IF k <= Len(known)
            THEN [key |-> known[k], pipeline_stage |-> known[k]]
            ELSE [key |-> foreign[k - Len(known)], pipeline_stage |-> Null]]

\* stage_analysis.groupby('pipeline_stage').size(), ordered by stage.
stage_counts(stage_df) ==
    LET stages == sorted_stages(stage_df)
    IN  [k \in 1..Len(stages) |->
            [pipeline_stage |-> stages[k].pipeline_stage,
             count |-> group_size(stage_df, "pipeline_stage", stages[k].key)]]

\* stage_analysis.groupby('pipeline_stage')['votes'].mean(), ordered by stage.
stage_votes_avg(stage_df) ==
    LET stages == sorted_stages(stage_df)
    IN  [k \in 1..Len(stages) |->
            LET rows == SelectSeq(stage_df, LAMBDA r : r["pipeline_stage"] = stages[k].key)
            IN  [pipeline_stage |-> stages[k].pipeline_stage,
                 votes |-> series_mean([i \in 1..Len(rows) |-> rows[i]["votes"]])]]

\* votes_df.pivot_table(index='player_name', columns='company_name',
\*                      aggfunc='size', fill_value=0)
vote_matrix(votes_df) ==
    [cell \in group_keys(votes_df, "player_name") \X group_keys(votes_df, "company_name") |->
        Cardinality({i \in 1..Len(votes_df) :
            votes_df[i]["player_name"] = cell[1] /\ votes_df[i]["company_name"] = cell[2]})]

\* ------------------------------------------------------ consensus score
\* A percentage is kept in tenths of a percent (round(1) leaves one decimal).
\* Dividing a positive count by zero gives inf and 0 / 0 gives NaN in pandas.
PctInf == 1000000
PctNaN == -1

\* (votes / total_players_count * 100).round(1), halves to the even tenth.
vote_percentage(votes, total_players_count) ==
    IF total_players_count = 0
    THEN IF votes = 0 THEN PctNaN ELSE PctInf
    ELSE LET x == votes * 1000
             q == x \div total_players_count
             r == x % total_players_count
         IN  IF 2 * r > total_players_count \/ (2 * r = total_players_count /\ q % 2 = 1)
             THEN q + 1 ELSE q

\* is_low_consensus with its threshold above the one of the high bucket.
is_low_consensus_below_60(pct) == pct # PctNaN /\ pct < 600

\* vote_percentage >= 50 and vote_percentage < 20; both are False on NaN.
is_high_consensus(pct) == pct # PctNaN /\ pct >= 500
is_low_consensus(pct) == pct # PctNaN /\ pct < 200

company_vote_percentage(all_comp, total_players_count) ==
    LET with_pct == [i \in 1..Len(all_comp) |->
                        [company_name |-> all_comp[i]["company_name"],
                         votes |-> all_comp[i]["votes"],
                         vote_percentage |->
                             vote_percentage(all_comp[i]["votes"], total_players_count)]]
    IN  sort_desc(with_pct, "vote_percentage")

high_consensus(pct_df) == SelectSeq(pct_df, LAMBDA r : is_high_consensus(r["vote_percentage"]))
low_consensus(pct_df) == SelectSeq(pct_df, LAMBDA r : is_low_consensus(r["vote_percentage"]))

\* ------------------------------------------------ lead-player alignment
SamePod == "Same Pod"
CrossPod == "Cross-Pod"

\* lead_team == voter_team on cells: NaN equals nothing, itself included.
same_team(lead_team, voter_team) ==
    notna(lead_team) /\ notna(voter_team) /\ lead_team = voter_team

\* The pairs one row of votes_with_lead adds, reading its lead list from col.
vote_alignment(vote, col, players_df) ==
    IF notna(vote[col]) /\ truthy(vote[col])
    THEN LET leads == split_names(vote[col])
             known == SelectSeq(leads, LAMBDA l :
                         \E i \in 1..Len(players_df) : players_df[i]["player_name"] = l)
         IN  [k \in 1..Len(known) |->
                LET lead_team_data == SelectSeq(players_df,
                                          LAMBDA p : p["player_name"] = known[k])
                    lead_team == lead_team_data[1]["team"]
                IN  [same_pod |-> IF same_team(lead_team, vote["team"])
                                  THEN SamePod ELSE CrossPod,
                     count |-> 1]]
    ELSE <<>>

RECURSIVE alignment_rows(_, _, _)
alignment_rows(votes_with_lead, col, players_df) ==
    IF votes_with_lead = <<>> THEN <<>>
    ELSE vote_alignment(Head(votes_with_lead), col, players_df)
         \o alignment_rows(Tail(votes_with_lead), col, players_df)

\* votes_df, which already has a lead column, merged with
\* companies_df[['company_name', 'lead']].
votes_with_lead(votes_df, companies_df) ==
    merge(votes_df, project(companies_df, {"company_name", "lead"}),
          {"company_name", "lead"}, "company_name")

NoError == "none"
KeyError == "KeyError"

\* The alignment loop: vote['lead'] raises KeyError on a row without that column.
alignment(votes_df, companies_df, players_df) ==
    LET joined == votes_with_lead(votes_df, companies_df)
    IN  IF "lead" \in Columns(joined)
        THEN [raised |-> NoError, rows |-> alignment_rows(joined, "lead", players_df)]
        ELSE [raised |-> KeyError, rows |-> <<>>]

\* same_pod_pct, computed only under "if alignment_data": the Same Pod pairs
\* over all pairs.
NoPct == [computed |-> FALSE, same |-> 0, pairs |-> 0]

same_pod_pct(alignment_data) ==
    IF alignment_data # <<>>
    THEN [computed |-> TRUE,
          same |-> Len(SelectSeq(alignment_data, LAMBDA r : r.same_pod = SamePod)),
          pairs |-> Len(alignment_data)]
    ELSE NoPct

\* ------------------------------------------------ one run of the Insights tab
Gated == "gated"
NoVotes == "no_votes"
Full == "full"
NotRun == "not_run"

\* What one script run leaves on the Insights tab.  stage says how far the tab
\* got: Gated (the info message of the empty-table gate), NoVotes (overview
\* metrics only) or Full; a table the run did not build is the empty sequence.
Blank(players_df, companies_df, portfolios_df) ==
    [stage |-> NotRun,
     players_df |-> players_df, companies_df |-> companies_df, portfolios_df |-> portfolios_df,
     vote_data |-> <<>>, votes_df |-> <<>>,
     total_votes |-> 0, companies_with_zero_votes |-> 0,
     avg_votes_per_company |-> Literal(0), overview_divisors |-> {},
     all_companies |-> <<>>, stage_analysis |-> <<>>,
     stage_counts |-> <<>>, stage_votes_avg |-> <<>>,
     lead_votes |-> <<>>, co_lead_votes |-> <<>>,
     vote_matrix |-> <<>>,
     company_vote_percentage |-> <<>>, high_consensus |-> <<>>, low_consensus |-> <<>>,
     alignment_reached |-> FALSE, alignment_data |-> <<>>, same_pod_pct |-> NoPct,
     raised |-> NoError]

insights_tab(players_df, companies_df, portfolios_df) ==
    LET blank == Blank(players_df, companies_df, portfolios_df)
    IN  IF Len(portfolios_df) = 0 \/ Len(companies_df) = 0
        THEN [blank EXCEPT !.stage = Gated]
        ELSE
        LET votes == vote_data(portfolios_df)
            votes_df == votes_merged(votes, companies_df, players_df)
            total_companies == Len(companies_df)
        IN  IF Len(votes_df) = 0
            THEN [blank EXCEPT !.stage = NoVotes,
                               !.companies_with_zero_votes = total_companies]
            ELSE
            LET all_comp == all_companies(companies_df, votes_df)
                stage_df == stage_analysis(companies_df, all_comp)
                leads == lead_votes(stage_df, "lead")
                pct_df == company_vote_percentage(all_comp, Len(players_df))
                reached == "team" \in Columns(votes_df) /\ leads # <<>>
                aligned == IF reached THEN alignment(votes_df, companies_df, players_df)
                           ELSE [raised |-> NoError, rows |-> <<>>]
            IN  [blank EXCEPT
                    !.stage = Full,
                    !.vote_data = votes,
                    !.votes_df = votes_df,
                    !.total_votes = Len(votes_df),
                    !.companies_with_zero_votes =
                        total_companies - Cardinality(group_keys(votes_df, "company_name")),
                    !.avg_votes_per_company = avg_votes_per_company(votes_df),
                    !.overview_divisors = {avg_votes_per_company(votes_df).count},
                    !.all_companies = all_comp,
                    !.stage_analysis = stage_df,
                    !.stage_counts = stage_counts(stage_df),
                    !.stage_votes_avg = stage_votes_avg(stage_df),
                    !.lead_votes = leads,
                    !.co_lead_votes = lead_votes(stage_df, "co_lead"),
                    !.vote_matrix = vote_matrix(votes_df),
                    !.company_vote_percentage = pct_df,
                    !.high_consensus = high_consensus(pct_df),
                    !.low_consensus = low_consensus(pct_df),
                    !.alignment_reached = reached,
                    !.alignment_data = aligned.rows,
                    !.same_pod_pct = same_pod_pct(aligned.rows),
                    !.raised = aligned.raised]

\* ------------------------------------------------------ the Admin handlers
\* Add Team Member, after validation: the table the handler saves.
add_team_member(players_df, player_name, designation, team) ==
    Append(players_df,
           [player_id |-> next_id(players_df, "player_id"),
            player_name |-> strip(player_name),
            designation |-> designation,
            team |-> team])

\* Add Company, after validation.
add_company(companies_df, company_name, pipeline_stage, lead, co_lead) ==
    Append(companies_df,
           [company_id |-> next_id(companies_df, "company_id"),
            company_name |-> strip(company_name),
            pipeline_stage |-> pipeline_stage,
            founder_archetype |-> CHOOSE v \in FOUNDER_ARCHETYPES : TRUE,
            sector |-> CHOOSE v \in SECTORS : TRUE,
            company_stage |-> CHOOSE v \in COMPANY_STAGES : TRUE,
            cheque |-> CHOOSE v \in CHEQUE_OPTIONS : TRUE,
            lead |-> join(lead),
            co_lead |-> IF co_lead # <<>> THEN join(co_lead) ELSE <<>>,
            deal_team |-> <<>>])

\* without_player with the filter left out.
without_player_keep_all(portfolios_df, player) == portfolios_df

\* portfolios_df[portfolios_df["player_id"] != player["player_id"]]
without_player(portfolios_df, player) ==
    SelectSeq(portfolios_df, LAMBDA r : r["player_id"] # player["player_id"])

\* The Save button of a player's portfolio form.
save_portfolio(portfolios_df, player, selected_companies) ==
    LET kept == without_player(portfolios_df, player)
    IN  IF selected_companies # <<>>
        THEN Append(kept, [player_id |-> player["player_id"],
                           player_name |-> player["player_name"],
                           designation |-> player["designation"],
                           companies |-> join(selected_companies)])
        ELSE kept

\* clear_portfolio emptying the whole table.
clear_portfolio_all(portfolios_df, player) == <<>>

\* The Clear button of a player's portfolio form.
clear_portfolio(portfolios_df, player) == without_player(portfolios_df, player)

\* The table a handler computes from the table it loaded.
handler_result(r, loaded) ==
    CASE r.kind = "member" -> add_team_member(loaded, r.player_name, r.designation, r.team)
      [] r.kind = "company" -> add_company(loaded, r.company_name, r.pipeline_stage,
                                           r.lead, r.co_lead)
      [] r.kind = "save" -> save_portfolio(loaded, r.player, r.selected_companies)
      [] r.kind = "clear" -> clear_portfolio(loaded, r.player)

PLAYERS_CSV == "players"
COMPANIES_CSV == "companies"
PORTFOLIOS_CSV == "portfolios"

\* The file a handler loads and saves.
handler_path(r) ==
    CASE r.kind = "member" -> PLAYERS_CSV
      [] r.kind = "company" -> COMPANIES_CSV
      [] r.kind \in {"save", "clear"} -> PORTFOLIOS_CSV

\* ----------------------------------------------------------- the state
Sessions == {"s1", "s2"}

VARIABLES
    files,      \* the three CSV files: path -> rows as written
    pc,         \* per session: "idle" (page shown) or "save" (a handler has
                \* loaded its file and built its table, and has not saved yet)
    req,        \* per session: the submission the handler is serving
    handler_df,         \* per session: the DataFrame the handler is about to save
    snap,       \* per session, history: whether another session saved the file
                \* this session's latest handler loaded before that handler
                \* saved it, and until then the rows the file had before
    insights,   \* what the latest script run put on the Insights tab
    msg,        \* the latest st.error / st.success message
    tally,      \* a single consensus computation: votes, total, percentage
    present,    \* the paths at which a file exists
    git         \* save_to_github: the call it is at, the subprocess calls of
                \* this execution with their outcomes, what it returned, and
                \* the messages of the executions so far

vars == <<files, pc, req, handler_df, snap, insights, msg, tally, present, git>>

\* st.rerun() follows every st.success at once, and the new run shows no message.
NoMessage == "none"

NoReq == [kind |-> "none"]
NoSnap == [taken |-> FALSE, path |-> "none", rows |-> <<>>]
NoTally == [votes |-> 0, total_players_count |-> 0, vote_percentage |-> 0, done |-> FALSE]

AllPaths == {PLAYERS_CSV, COMPANIES_CSV, PORTFOLIOS_CSV}

EmptyFiles == [f \in AllPaths |-> <<>>]

NoResult == [returned |-> FALSE, success |-> FALSE, message |-> "none", raised |-> FALSE]
NoGit == [pc |-> "idle", calls |-> <<>>, result |-> NoResult, log |-> <<>>]

\* One script run on the stored files: the three loads of lines 127-129, then
\* the Insights tab.
script_run(stored) ==
    insights_tab(load_csv(stored[PLAYERS_CSV]),
                 load_csv(stored[COMPANIES_CSV]),
                 load_csv(stored[PORTFOLIOS_CSV]))

\* The first script run has created the three files, each with its header
\* only, and has shown the Insights tab for them.
Init ==
    /\ files = EmptyFiles
    /\ pc = [s \in Sessions |-> "idle"]
    /\ req = [s \in Sessions |-> NoReq]
    /\ handler_df = [s \in Sessions |-> <<>>]
    /\ snap = [s \in Sessions |-> NoSnap]
    /\ insights = script_run(EmptyFiles)
    /\ msg = NoMessage
    /\ tally = NoTally
    /\ present = AllPaths
    /\ git = NoGit

\* A handler, from its load to the script run its st.rerun() starts, with no
\* other session in between.
Handle(s, r) ==
    LET path == handler_path(r)
    IN  /\ files' = [files EXCEPT
                        ![path] = save_csv(handler_result(r, load_csv(files[path])))]
        /\ insights' = script_run(files')
        /\ msg' = NoMessage
        /\ present' = AllPaths
        /\ UNCHANGED <<pc, req, handler_df, snap, tally, git>>

\* The first half of a handler: it loads its file and builds its table.
Begin(s, r) ==
    /\ req' = [req EXCEPT ![s] = r]
    /\ handler_df' = [handler_df EXCEPT ![s] = handler_result(r, load_csv(files[handler_path(r)]))]
    /\ snap' = [snap EXCEPT ![s] = NoSnap]
    /\ pc' = [pc EXCEPT ![s] = "save"]
    /\ present' = present \cup {handler_path(r)}
    /\ UNCHANGED <<files, insights, msg, tally, git>>

\* Save with the file opened for appending: the rows built are added to the
\* rows the file holds.
Save_append(s) ==
    /\ pc[s] = "save"
    /\ LET path == handler_path(req[s])
       IN  /\ files' = [files EXCEPT ![path] = files[path] \o save_csv(handler_df[s])]
           /\ snap' = [t \in Sessions |->
                         IF t # s /\ pc[t] = "save" /\ handler_path(req[t]) = path
                            /\ ~snap[t].taken
                         THEN [taken |-> TRUE, path |-> path, rows |-> files[path]]
                         ELSE IF t = s THEN [snap[s] EXCEPT !.rows = <<>>]
                         ELSE snap[t]]
    /\ insights' = script_run(files')
    /\ msg' = NoMessage
    /\ pc' = [pc EXCEPT ![s] = "idle"]
    /\ req' = [req EXCEPT ![s] = NoReq]
    /\ handler_df' = [handler_df EXCEPT ![s] = <<>>]
    /\ present' = AllPaths
    /\ UNCHANGED <<tally, git>>

\* The second half: save_csv and the script run that
\* st.rerun() starts.
Save(s) ==
    /\ pc[s] = "save"
    /\ LET path == handler_path(req[s])
       IN  /\ files' = [files EXCEPT ![path] = save_csv(handler_df[s])]
           /\ snap' = [t \in Sessions |->
                         IF t # s /\ pc[t] = "save" /\ handler_path(req[t]) = path
                            /\ ~snap[t].taken
                         THEN [taken |-> TRUE, path |-> path, rows |-> files[path]]
                         ELSE IF t = s THEN [snap[s] EXCEPT !.rows = <<>>]
                         ELSE snap[t]]
    /\ insights' = script_run(files')
    /\ msg' = NoMessage
    /\ pc' = [pc EXCEPT ![s] = "idle"]
    /\ req' = [req EXCEPT ![s] = NoReq]
    /\ handler_df' = [handler_df EXCEPT ![s] = <<>>]
    /\ present' = AllPaths
    /\ UNCHANGED <<tally, git>>

\* Reject that also empties the stored tables.
Reject_and_wipe(text) ==
    /\ msg' = text
    /\ files' = EmptyFiles
    /\ UNCHANGED <<pc, req, handler_df, snap, insights, tally, present, git>>

Reject(text) ==
    /\ msg' = text
    /\ UNCHANGED <<files, pc, req, handler_df, snap, insights, tally, present, git>>

\* The way a handler's load-then-save runs: Handle in one step (Atomic), or
\* Begin with Save left as a later step (Split).
Atomic == "atomic"
Split == "split"
Run(mode, s, r) == IF mode = Atomic THEN Handle(s, r) ELSE Begin(s, r)

AddTeamMember(s, player_name, designation, team, max_rows, mode) ==
    /\ pc[s] = "idle"
    /\ IF strip(player_name) = <<>>
       THEN Reject("Name is required.")
       ELSE /\ Len(files[PLAYERS_CSV]) < max_rows
            /\ Run(mode, s, [kind |-> "member", player_name |-> player_name,
                       designation |-> designation, team |-> team])

AddCompany(s, company_name, pipeline_stage, lead, co_lead, max_rows, mode) ==
    /\ pc[s] = "idle"
    /\ IF strip(company_name) = <<>>
       THEN Reject("Company name is required.")
       ELSE IF lead = <<>>
       THEN Reject("At least one lead is required.")
       ELSE /\ Len(files[COMPANIES_CSV]) < max_rows
            /\ Run(mode, s, [kind |-> "company", company_name |-> company_name,
                       pipeline_stage |-> pipeline_stage,
                       lead |-> lead, co_lead |-> co_lead])

SavePortfolio(s, player, selected_companies, mode) ==
    /\ pc[s] = "idle"
    /\ Run(mode, s, [kind |-> "save", player |-> player,
               selected_companies |-> selected_companies])

ClearPortfolio(s, player, mode) ==
    /\ pc[s] = "idle"
    /\ Run(mode, s, [kind |-> "clear", player |-> player])

\* The form inputs the single-session specification draws from.
PlayerNameInputs == {<<"a">>, <<"b">>}
CompanyNameInputs == {<<"x">>, <<"x", Comma, "y">>}
Inputs ==
    [player_names |-> PlayerNameInputs, designations |-> DESIGNATIONS, teams |-> {FinTechPod},
     company_names |-> CompanyNameInputs, stages |-> {IC},
     max_players |-> MaxPlayers, max_companies |-> MaxCompanies,
     max_lead |-> MaxLead, max_co_lead |-> MaxCoLead, max_select |-> MaxSelect]

\* The form inputs the two-session specification draws from.
RaceInputs ==
    [player_names |-> {<<"a">>}, designations |-> {Partner}, teams |-> {FinTechPod},
     company_names |-> {<<"x">>}, stages |-> {IC},
     max_players |-> MaxPlayers, max_companies |-> MaxRaceCompanies,
     max_lead |-> MaxLead, max_co_lead |-> MaxCoLead, max_select |-> MaxRaceSelect]

\* What the forms of one script run offer, from the loads of lines 926 and 992-993.
Submit(s, I, mode) ==
    LET current_players_df == load_csv(files[PLAYERS_CSV])
        current_companies_df == load_csv(files[COMPANIES_CSV])
        partners == get_partners(current_players_df)
        all_players == get_all_players_names(current_players_df)
        company_options == {current_companies_df[i]["company_name"] :
                               i \in {j \in 1..Len(current_companies_df) :
                                        notna(current_companies_df[j]["company_name"])}}
        form_players == {p \in Range(current_players_df) : p["designation"] \in DESIGNATIONS}
    IN  \/ \E n \in I.player_names, d \in I.designations, t \in I.teams :
              AddTeamMember(s, n, d, t, I.max_players, mode)
        \/ \E n \in I.company_names, g \in I.stages,
              l \in Selections(partners, I.max_lead),
              c \in Selections(all_players, I.max_co_lead) :
              AddCompany(s, n, g, l, c, I.max_companies, mode)
        \/ /\ Len(current_players_df) > 0
           /\ Len(current_companies_df) > 0
           /\ \E p \in form_players :
                 \/ \E sel \in Selections(company_options, I.max_select) :
                       SavePortfolio(s, p, sel, mode)
                 \/ ClearPortfolio(s, p, mode)

\* One session, every handler running to its end before the next submission.
Next == Submit("s1", Inputs, Atomic)

Spec == Init /\ [][Next]_vars

\* Two sessions whose handlers interleave between load_csv and save_csv.
NextRace == \E s \in Sessions : Submit(s, RaceInputs, Split) \/ Save(s)

SpecRace == Init /\ [][NextRace]_vars

\* ------------------------------------------- the forms on stored files
\* A line that read_csv cannot tokenize or decode.
BadLine == [unparsed |-> <<"?">>]

\* Lines players.csv may hold when a submission arrives.
FormPlayerLines ==
    {[player_id |-> 1, player_name |-> <<"a">>, designation |-> Partner, team |-> FinTechPod],
     [player_id |-> 2, player_name |-> <<"b">>, designation |-> Analyst, team |-> FinTechPod],
     BadLine}

\* The form inputs of this specification: blank names among them.
FormInputs ==
    [player_names |-> {<<"a">>, <<Space>>, <<>>}, designations |-> {Partner},
     teams |-> {FinTechPod},
     company_names |-> {<<"x">>, <<Space>>}, stages |-> {IC},
     max_players |-> MaxFormPlayers, max_companies |-> MaxFormCompanies,
     max_lead |-> MaxLead, max_co_lead |-> MaxCoLead, max_select |-> MaxFormSelect]

\* players.csv is absent, or holds lines that parse, or holds a line that does
\* not; the other two files hold their header.
InitForms ==
    /\ \E lines \in Selections(FormPlayerLines, MaxPlayers), there \in BOOLEAN :
          /\ ~there => lines = <<>>
          /\ files = [EmptyFiles EXCEPT ![PLAYERS_CSV] = lines]
          /\ present = IF there THEN AllPaths ELSE AllPaths \ {PLAYERS_CSV}
    /\ pc = [s \in Sessions |-> "idle"]
    /\ req = [s \in Sessions |-> NoReq]
    /\ handler_df = [s \in Sessions |-> <<>>]
    /\ snap = [s \in Sessions |-> NoSnap]
    /\ insights = script_run(files)
    /\ msg = NoMessage
    /\ tally = NoTally
    /\ git = NoGit

NextForms == Submit("s1", FormInputs, Atomic)

SpecForms == InitForms /\ [][NextForms]_vars

\* ------------------------------------------------------- save_to_github
Ok == "ok"
NonZero == "CalledProcessError"
TimedOut == "TimeoutExpired"
OtherError == "Exception"

\* The subprocess.run calls made with check=True.
CheckedSteps == {"add", "commit", "push"}

\* subprocess.run raises: on a non-zero exit when check=True, on the timeout
\* of the push, on any other failure to run git.
raises(step, outcome) ==
    \/ outcome \in {TimedOut, OtherError}
    \/ outcome = NonZero /\ step \in CheckedSteps

Returned(success, message) ==
    [returned |-> TRUE, success |-> success, message |-> message, raised |-> FALSE]

\* The three except clauses.
except_result(outcome) ==
    CASE outcome = TimedOut -> Returned(FALSE, "Push timed out. Please check your connection.")
      [] outcome = NonZero -> Returned(FALSE, "Git error")
      [] OTHER -> Returned(FALSE, "Error")

\* status_next that goes on to the commit whatever the status prints.
status_next_always_commit(stdout) == "commit"

\* if not status.stdout.strip(): return False, "No changes to save"
status_next(stdout) == IF strip(stdout) = <<>> THEN "return" ELSE "commit"

\* What git status --porcelain may print: nothing, white space, a changed file.
StatusOutputs == {<<>>, <<Space>>, <<Space, "M">>}

\* The call after a call that neither raised nor returned.
next_call(step, stdout) ==
    CASE step = "add" -> "status"
      [] step = "status" -> status_next(stdout)
      [] step = "commit" -> "push"
      [] step = "push" -> "return"

\* One subprocess.run of save_to_github and what follows it at once: the next
\* call, or the return and the message the button shows.
git_call(step, outcome, stdout) ==
    /\ git.pc = step
    /\ LET calls == Append(git.calls, [step |-> step, outcome |-> outcome, stdout |-> stdout])
           next == next_call(step, stdout)
           result == IF raises(step, outcome) THEN except_result(outcome)
                     ELSE IF next # "return" THEN NoResult
                     ELSE IF step = "status" THEN Returned(FALSE, "No changes to save")
                     ELSE Returned(TRUE, "Data saved to GitHub successfully!")
       IN  /\ git' = IF result.returned
                     THEN [pc |-> "idle", calls |-> calls, result |-> result,
                           log |-> Append(git.log, result.message)]
                     ELSE [git EXCEPT !.pc = next, !.calls = calls]
           /\ msg' = IF result.returned THEN result.message ELSE msg
    /\ UNCHANGED <<files, pc, req, handler_df, snap, insights, tally, present>>

\* The Save to GitHub button: save_to_github starts.
save_to_github(s) ==
    /\ pc[s] = "idle"
    /\ git.pc = "idle"
    /\ Len(git.log) < MaxPresses
    /\ git' = [git EXCEPT !.pc = "add", !.calls = <<>>, !.result = NoResult]
    /\ UNCHANGED <<files, pc, req, handler_df, snap, insights, msg, tally, present>>

git_add == \E o \in {Ok, NonZero, OtherError} : git_call("add", o, <<>>)

git_status == \E o \in {Ok, NonZero, OtherError}, out \in StatusOutputs : git_call("status", o, out)

git_commit == \E o \in {Ok, NonZero, OtherError} : git_call("commit", o, <<>>)

git_push == \E o \in {Ok, NonZero, TimedOut, OtherError} : git_call("push", o, <<>>)

NextGit == save_to_github("s1") \/ git_add \/ git_status \/ git_commit \/ git_push

SpecGit == Init /\ [][NextGit]_vars

\* ------------------------------------- the Insights tab on arbitrary files
\* Sequences over S of length at most n.
SeqsUpTo(S, n) == UNION {[1..k -> S] : k \in 0..n}

StoredPlayer(id, name, designation, team) ==
    [player_id |-> id, player_name |-> name, designation |-> designation, team |-> team]

StoredCompany(id, name, stage, lead, co_lead) ==
    [company_id |-> id, company_name |-> name, pipeline_stage |-> stage,
     founder_archetype |-> CHOOSE v \in FOUNDER_ARCHETYPES : TRUE,
     sector |-> CHOOSE v \in SECTORS : TRUE,
     company_stage |-> CHOOSE v \in COMPANY_STAGES : TRUE,
     cheque |-> CHOOSE v \in CHEQUE_OPTIONS : TRUE,
     lead |-> lead, co_lead |-> co_lead, deal_team |-> <<>>]

StoredPortfolio(id, name, designation, companies) ==
    [player_id |-> id, player_name |-> name, designation |-> designation,
     companies |-> companies]

\* Rows a players.csv, companies.csv or model_portfolios.csv may hold, written
\* by the handlers or by hand: two people of one name, a lead list of two, an
\* empty lead, a lead and a company that no table knows ("g"), an empty
\* company list, an empty piece in a company list.
PlayerRows ==
    {StoredPlayer(1, <<"a">>, Partner, FinTechPod),
     StoredPlayer(2, <<"b">>, Partner, DeepTechPod),
     StoredPlayer(3, <<"a">>, Analyst, DeepTechPod)}

CompanyRows ==
    {StoredCompany(1, <<"x">>, IC, <<"a">>, <<>>),
     StoredCompany(2, <<"y">>, Showcase, <<"a", Comma, Space, "b">>, <<"b">>),
     StoredCompany(3, <<"x">>, Wired, <<>>, <<"a", Comma, "b">>),
     StoredCompany(4, <<"y">>, IC, <<"g">>, <<>>)}

PortfolioRows ==
    {StoredPortfolio(1, <<"a">>, Partner, <<"x">>),
     StoredPortfolio(2, <<"b">>, Partner, <<"x", Comma, Space, "y">>),
     StoredPortfolio(2, <<"b">>, Partner, <<"g">>),
     StoredPortfolio(1, <<"a">>, Partner, <<>>),
     StoredPortfolio(3, <<"a">>, Analyst, <<"y", Comma, Comma, "x">>)}

InitPipeline ==
    /\ \E p \in SeqsUpTo(PlayerRows, MaxPlayers),
          c \in SeqsUpTo(CompanyRows, MaxCompanies),
          f \in SeqsUpTo(PortfolioRows, MaxPortfolios) :
          files = [EmptyFiles EXCEPT ![PLAYERS_CSV] = p, ![COMPANIES_CSV] = c,
                                     ![PORTFOLIOS_CSV] = f]
    /\ pc = [s \in Sessions |-> "idle"]
    /\ req = [s \in Sessions |-> NoReq]
    /\ handler_df = [s \in Sessions |-> <<>>]
    /\ snap = [s \in Sessions |-> NoSnap]
    /\ insights = Blank(<<>>, <<>>, <<>>)
    /\ msg = NoMessage
    /\ tally = NoTally
    /\ present = AllPaths
    /\ git = NoGit

\* A session opens the page: one script run on the files as they are.
ScriptRun(s) ==
    /\ pc[s] = "idle"
    /\ insights.stage = NotRun
    /\ insights' = script_run(files)
    /\ present' = AllPaths
    /\ UNCHANGED <<files, pc, req, handler_df, snap, msg, tally, git>>

NextPipeline == \E s \in Sessions : ScriptRun(s)

SpecPipeline == InitPipeline /\ [][NextPipeline]_vars

\* ------------------------------------------- one consensus computation
InitConsensus ==
    /\ files = EmptyFiles
    /\ pc = [s \in Sessions |-> "idle"]
    /\ req = [s \in Sessions |-> NoReq]
    /\ handler_df = [s \in Sessions |-> <<>>]
    /\ snap = [s \in Sessions |-> NoSnap]
    /\ insights = Blank(<<>>, <<>>, <<>>)
    /\ msg = NoMessage
    /\ present = AllPaths
    /\ git = NoGit
    /\ \E total \in 0..MaxPersonCount : \E votes \in 0..total :
          tally = [NoTally EXCEPT !.votes = votes, !.total_players_count = total]

\* Lines 750-756 for one company: its percentage, from which both buckets are cut.
Classify ==
    /\ ~tally.done
    /\ tally' = [tally EXCEPT
                    !.vote_percentage = vote_percentage(tally.votes, tally.total_players_count),
                    !.done = TRUE]
    /\ UNCHANGED <<files, pc, req, handler_df, snap, insights, msg, present, git>>

SpecConsensus == InitConsensus /\ [][Classify]_vars

\* ------------------------------------------------------------ properties
\* The length of the comma-split list of a company-list cell: one more than
\* its commas; a NaN or empty cell has no list.
ListLength(cell) ==
    IF cell = Null \/ cell = <<>> THEN 0
    ELSE 1 + Cardinality({i \in 1..Len(cell) : cell[i] = Comma})

RECURSIVE SumListLengths(_, _)
SumListLengths(portfolios_df, n) ==
    IF n = 0 THEN 0
    ELSE SumListLengths(portfolios_df, n - 1) + ListLength(portfolios_df[n]["companies"])

Expanded == insights.stage \in {NoVotes, Full}

\* C1: the vote expansion yields one row per element of each entry's
\* comma-split company list, in entry order and carrying that entry's player:
\* the row count is the sum of the list lengths, and an entry whose list is
\* NaN or empty yields no row.
C1_VoteExpansionRowCount ==
    Expanded =>
        LET entries == insights.portfolios_df
            rows == insights.vote_data
        IN  /\ Len(rows) = SumListLengths(entries, Len(entries))
            /\ \A i \in 1..Len(entries) :
                 \A j \in 1..ListLength(entries[i]["companies"]) :
                    LET row == rows[SumListLengths(entries, i - 1) + j]
                    IN  /\ row["player_id"] = entries[i]["player_id"]
                        /\ row["player_name"] = entries[i]["player_name"]
                        /\ row["designation"] = entries[i]["designation"]

\* C1 witness: a run over an entry with an empty list and an entry with a list
\* of three pieces, one of them empty.
C1_Witness ==
    /\ insights.stage = Full
    /\ \E i \in 1..Len(insights.portfolios_df) :
          insights.portfolios_df[i]["companies"] = Null
    /\ \E i \in 1..Len(insights.portfolios_df) :
          ListLength(insights.portfolios_df[i]["companies"]) = 3
    /\ Len(insights.vote_data) = 3

\* C2 as claimed: the joined vote relation has as many rows as the expanded one.
C2_JoinKeepsRowCount ==
    insights.stage = Full => Len(insights.votes_df) = Len(insights.vote_data)

\* The rows of df whose col cell is key.
RowsWith(df, col, key) == {i \in 1..Len(df) : df[i][col] = key}

C4_OnePairPerResolvableLead ==
    insights.stage = Full =>
        /\ insights.raised = NoError
        /\ insights.alignment_data
              = alignment_rows(insights.votes_df, "lead", insights.players_df)

\* C5 as claimed: with an empty Person table and at least one vote, every
\* company's vote percentage is 0 and the high-consensus bucket is empty.
C5_NoPersonsMeansZeroPercent ==
    (insights.stage = Full /\ Len(insights.players_df) = 0) =>
        /\ \A k \in 1..Len(insights.company_vote_percentage) :
              insights.company_vote_percentage[k]["vote_percentage"] = 0
        /\ insights.high_consensus = <<>>

\* C6 as claimed: with percentage = votes / total_person_count x 100, a company
\* is in the high bucket iff percentage >= 50, in the low bucket iff
\* percentage < 20, and in neither iff 20 <= percentage < 50.
C6_BucketsCutExactPercentage ==
    (tally.done /\ tally.total_players_count > 0) =>
        LET high == is_high_consensus(tally.vote_percentage)
            low == is_low_consensus(tally.vote_percentage)
        IN  /\ high <=> tally.votes * 100 >= 50 * tally.total_players_count
            /\ low <=> tally.votes * 100 < 20 * tally.total_players_count
            /\ (~high /\ ~low) <=>
                  /\ tally.votes * 100 >= 20 * tally.total_players_count
                  /\ tally.votes * 100 < 50 * tally.total_players_count

\* The vote rows of a run that name a company the Company table does not hold.
GhostVotes ==
    {k \in 1..Len(insights.votes_df) :
        \A i \in 1..Len(insights.companies_df) :
           insights.companies_df[i]["company_name"] # insights.votes_df[k]["company_name"]}

\* C7 as claimed: when a portfolio names a company that the Company table does
\* not hold, the run does not raise, the vote relation has that row with NaN
\* company attributes, and the per-company vote table does not list the name.
C7_GhostCompanyTolerated ==
    (insights.stage = Full /\ GhostVotes # {}) =>
        /\ insights.raised = NoError
        /\ \A k \in GhostVotes :
              /\ \A c \in {"pipeline_stage", "sector", "cheque", "lead", "co_lead"} :
                    insights.votes_df[k][c] = Null
              /\ \A j \in 1..Len(insights.all_companies) :
                    insights.all_companies[j]["company_name"]
                       # insights.votes_df[k]["company_name"]

\* C8: the stored portfolio table never holds two entries of one player_id,
\* however the loads and saves of the sessions interleave.
C8_OneEntryPerPlayerId ==
    \A i, j \in 1..Len(files[PORTFOLIOS_CSV]) :
       i # j => files[PORTFOLIOS_CSV][i]["player_id"] # files[PORTFOLIOS_CSV][j]["player_id"]

\* C8 witness: two players have an entry, and a portfolio handler has saved
\* after another session saved the table it had loaded.
C8_Witness ==
    /\ Len(files[PORTFOLIOS_CSV]) = 2
    /\ \E s \in Sessions :
          snap[s].taken /\ snap[s].path = PORTFOLIOS_CSV /\ pc[s] = "idle"

\* C9: when a session saves a table that another session has saved since this
\* session loaded it, the stored table becomes this session's submission
\* applied to the table as it was before the other save: it is the last
\* saver's table, and what the first saver wrote is not in it.
C9_LastWriterWins ==
    [][\A s \in Sessions :
          (pc[s] = "save" /\ pc'[s] = "idle" /\ snap[s].taken) =>
             files'[snap[s].path]
                = save_csv(handler_result(req[s], load_csv(snap[s].rows)))]_vars

\* C9 witness: two Add Team Member handlers loaded the empty table and both
\* have saved; the stored table holds one row, not two.
C9_Witness ==
    \E s \in Sessions :
       /\ pc[s] = "idle"
       /\ snap[s].taken
       /\ snap[s].path = PLAYERS_CSV
       /\ \A t \in Sessions : pc[t] = "idle"
       /\ Len(files[PLAYERS_CSV]) = 1

\* C10 as claimed: every cell of the voting matrix is 0 or 1.
C10_VoteMatrixCellsAreBits ==
    \A cell \in DOMAIN insights.vote_matrix : insights.vote_matrix[cell] \in {0, 1}

NamesOf(cell) == IF cell = Null \/ cell = <<>> THEN {} ELSE Range(split_names(cell))

PersonNames(players_df) == {players_df[i]["player_name"] : i \in 1..Len(players_df)}

\* C12 as claimed: when no lead of any voted company is the name of a Person,
\* the run does not raise, yields no classified pair and computes no same-pod
\* percentage.
C12_NoPairsNoPercentage ==
    (/\ insights.stage = Full
     /\ \A v \in 1..Len(insights.vote_data), c \in 1..Len(insights.companies_df) :
           insights.companies_df[c]["company_name"] = insights.vote_data[v]["company_name"]
           => NamesOf(insights.companies_df[c]["lead"])
                 \cap PersonNames(insights.players_df) = {})
    => /\ insights.raised = NoError
       /\ insights.alignment_data = <<>>
       /\ ~insights.same_pod_pct.computed

\* The records C13 expects of one company row: one per name of its list, each
\* with the number of vote rows that name the company.
ExpectedOfCompany(row, col, votes_df) ==
    IF row[col] = Null \/ row[col] = <<>> THEN <<>>
    ELSE LET names == split_names(row[col])
         IN  [k \in 1..Len(names) |->
                [lead |-> names[k],
                 pipeline_stage |-> row["pipeline_stage"],
                 votes |-> Cardinality(RowsWith(votes_df, "company_name", row["company_name"])),
                 company |-> row["company_name"]]]

RECURSIVE ExpectedLeadVotes(_, _, _)
ExpectedLeadVotes(companies_df, col, votes_df) ==
    IF companies_df = <<>> THEN <<>>
    ELSE ExpectedOfCompany(Head(companies_df), col, votes_df)
         \o ExpectedLeadVotes(Tail(companies_df), col, votes_df)

\* C13 as claimed: every company contributes to the per-lead records one
\* record per name of its lead list, each with the company's whole vote count,
\* and none when the list is null or empty; likewise for co_lead.
C13_OneRecordPerListedLead ==
    insights.stage = Full
    => /\ insights.lead_votes
            = ExpectedLeadVotes(insights.companies_df, "lead", insights.votes_df)
       /\ insights.co_lead_votes
            = ExpectedLeadVotes(insights.companies_df, "co_lead", insights.votes_df)

\* C14: however the loads and saves of the sessions interleave, the stored
\* Person table never holds one player_id twice, and an Add Team Member handler
\* gives its record id 1 when the table it loaded is empty and the largest
\* loaded id plus one otherwise.
C14_PlayerIdsUnique ==
    [][/\ \A i, j \in 1..Len(files'[PLAYERS_CSV]) :
             i # j => files'[PLAYERS_CSV][i]["player_id"] # files'[PLAYERS_CSV][j]["player_id"]
       /\ \A s \in Sessions :
             (pc[s] = "idle" /\ pc'[s] = "save" /\ req'[s].kind = "member") =>
                LET loaded == load_csv(files[PLAYERS_CSV])
                    built == handler_df'[s]
                IN  /\ Len(built) = Len(loaded) + 1
                    /\ SubSeq(built, 1, Len(loaded)) = loaded
                    /\ built[Len(built)]["player_id"]
                          = IF Len(loaded) = 0 THEN 1
                            ELSE 1 + SetMax({loaded[i]["player_id"] : i \in 1..Len(loaded)})]_vars

\* C14 witness: two handlers loaded the same Person table and both saved, and
\* a later Add Team Member has stored a second record.
C14_Witness ==
    /\ Len(files[PLAYERS_CSV]) = 2
    /\ files[PLAYERS_CSV][1]["player_id"] = 1
    /\ files[PLAYERS_CSV][2]["player_id"] = 2
    /\ \E s \in Sessions : snap[s].taken /\ snap[s].path = PLAYERS_CSV /\ pc[s] = "idle"

\* C15 as claimed: no two stored Person records have the same name.
C15_PlayerNamesUnique ==
    \A i, j \in 1..Len(files[PLAYERS_CSV]) :
       i # j => files[PLAYERS_CSV][i]["player_name"] # files[PLAYERS_CSV][j]["player_name"]

StageRank(g) == CASE g = Showcase -> 1 [] g = IC -> 2 [] g = Wired -> 3 [] OTHER -> 4

\* A per-stage table lists each stage of the Company table once, Showcase
\* before IC before Wired.
InStageOrder(table, companies_df) ==
    /\ \A i, j \in 1..Len(table) :
          i < j => StageRank(table[i]["pipeline_stage"]) < StageRank(table[j]["pipeline_stage"])
    /\ {table[i]["pipeline_stage"] : i \in 1..Len(table)}
          = {companies_df[i]["pipeline_stage"] : i \in 1..Len(companies_df)}

\* C16: for a Company table whose stages are Showcase, IC or Wired, the
\* per-stage company-count table and the per-stage mean-votes table are
\* ordered Showcase, IC, Wired.
C16_StageTablesInPipelineOrder ==
    (/\ insights.stage = Full
     /\ \A i \in 1..Len(insights.companies_df) :
           insights.companies_df[i]["pipeline_stage"] \in {Showcase, IC, Wired})
    => /\ InStageOrder(insights.stage_counts, insights.companies_df)
       /\ InStageOrder(insights.stage_votes_avg, insights.companies_df)

\* C16 witness: a run whose tables list Showcase first and IC second, the
\* reverse of the alphabetical order.
C16_Witness ==
    /\ insights.stage = Full
    /\ Len(insights.stage_counts) = 2
    /\ insights.stage_counts[1]["pipeline_stage"] = Showcase
    /\ insights.stage_counts[2]["pipeline_stage"] = IC
    /\ insights.stage_votes_avg[1]["pipeline_stage"] = Showcase
    /\ insights.stage_votes_avg[2]["pipeline_stage"] = IC

\* C17: no company is in both the high-consensus and the low-consensus bucket.
C17_BucketsDisjoint ==
    \A i \in 1..Len(insights.high_consensus), j \in 1..Len(insights.low_consensus) :
       insights.high_consensus[i]["company_name"] # insights.low_consensus[j]["company_name"]

\* C17 witness: a run that puts one company in each bucket.
C17_Witness ==
    /\ insights.stage = Full
    /\ insights.high_consensus # <<>>
    /\ insights.low_consensus # <<>>

\* C18 as claimed: with at least one vote, the Companies with Zero Votes
\* metric is the number of rows of the zero-filled per-company vote table with
\* 0 votes, and is not negative.
C18_ZeroVoteMetricCountsZeroRows ==
    insights.stage = Full
    => /\ insights.companies_with_zero_votes
            = Cardinality({i \in 1..Len(insights.all_companies) :
                              insights.all_companies[i]["votes"] = 0})
       /\ insights.companies_with_zero_votes >= 0

\* C19 as claimed: after any sequence of handlers of one session, every
\* portfolio entry's player_id is the id of a stored Person, every name of its
\* company list is the name of a stored Company, and every company has at
\* least one lead, each the name of a stored Partner.
C19_NoDanglingReference ==
    LET players == load_csv(files[PLAYERS_CSV])
        companies == load_csv(files[COMPANIES_CSV])
        portfolios == load_csv(files[PORTFOLIOS_CSV])
        partner_names == {players[i]["player_name"] :
                             i \in {j \in 1..Len(players) : players[j]["designation"] = Partner}}
    IN  /\ \A e \in 1..Len(portfolios) :
              /\ \E i \in 1..Len(players) :
                    players[i]["player_id"] = portfolios[e]["player_id"]
              /\ \A n \in NamesOf(portfolios[e]["companies"]) :
                    \E c \in 1..Len(companies) : companies[c]["company_name"] = n
        /\ \A c \in 1..Len(companies) :
              /\ NamesOf(companies[c]["lead"]) # {}
              /\ NamesOf(companies[c]["lead"]) \subseteq partner_names

\* What C20 expects of a Save of selection sel, or of a Clear (sel empty), for
\* player p: the file holds the loaded table without p's entries, then one new
\* entry of p when sel is not empty, and the other two files are as they were.
PortfolioFrame(p, sel) ==
    LET loaded == load_csv(files[PORTFOLIOS_CSV])
        others == SelectSeq(loaded, LAMBDA e : e["player_id"] # p["player_id"])
        entry == [player_id |-> p["player_id"], player_name |-> p["player_name"],
                  designation |-> p["designation"], companies |-> join(sel)]
    IN  /\ load_csv(files'[PORTFOLIOS_CSV])
              = IF sel # <<>> THEN others \o <<entry>> ELSE others
        /\ files'[PLAYERS_CSV] = files[PLAYERS_CSV]
        /\ files'[COMPANIES_CSV] = files[COMPANIES_CSV]

\* C20: in one session a portfolio Save for player p replaces p's entries by
\* one entry when the selection is not empty and by none when it is, a Clear
\* does what a Save of the empty selection does, and the entries of the other
\* players and the Person and Company tables stay as they were.
C20_SaveAndClearTouchOnePlayer ==
    [][\A p \in Range(load_csv(files[PLAYERS_CSV])) :
          /\ \A sel \in Selections({r["company_name"] : r \in Range(load_csv(files[COMPANIES_CSV]))},
                                   MaxSelect) :
                SavePortfolio("s1", p, sel, Atomic) => PortfolioFrame(p, sel)
          /\ ClearPortfolio("s1", p, Atomic) => PortfolioFrame(p, <<>>)]_vars

\* C20 witness: two players have an entry, so a Save has acted on a table that
\* held another player's entry.
C20_Witness ==
    /\ Len(files[PORTFOLIOS_CSV]) = 2
    /\ files[PORTFOLIOS_CSV][1]["player_id"] # files[PORTFOLIOS_CSV][2]["player_id"]

\* The lines of a file that are records.
Records(file) == SelectSeq(file, LAMBDA r : Unparsed \notin DOMAIN r)

\* C21 as claimed: a successful Add Team Member leaves every record that the
\* file held where it was and as it was, and adds exactly one record, whether
\* the file was absent, parsed, or did not parse.
C21_AddTeamMemberKeepsRecords ==
    [][\A n \in FormInputs.player_names, d \in FormInputs.designations,
          t \in FormInputs.teams :
          (strip(n) # <<>> /\ AddTeamMember("s1", n, d, t, MaxFormPlayers, Atomic)) =>
             /\ \A i \in 1..Len(files[PLAYERS_CSV]) :
                   Unparsed \notin DOMAIN files[PLAYERS_CSV][i]
                   => /\ i <= Len(files'[PLAYERS_CSV])
                      /\ files'[PLAYERS_CSV][i] = files[PLAYERS_CSV][i]
             /\ Len(Records(files'[PLAYERS_CSV])) = Len(Records(files[PLAYERS_CSV])) + 1]_vars

\* A call after which save_to_github goes on: it did not raise, and the status
\* printed something.
Passed(call) ==
    IF call.step = "status"
    THEN call.outcome # OtherError /\ strip(call.stdout) # <<>>
    ELSE call.outcome = Ok

GitOrder == <<"add", "status", "commit", "push">>

GitFailureMessages ==
    {"No changes to save", "Push timed out. Please check your connection.",
     "Git error", "Error"}

\* C22: the calls of one execution of save_to_github are add, status, commit,
\* push in that order; a call is made only when every call before it ran
\* without raising and the status printed something; the function returns
\* (True, ...) exactly when all four calls were made and passed, returns
\* (False, message) otherwise, and never raises.
C22_GitStepsInOrder ==
    /\ Len(git.calls) <= Len(GitOrder)
    /\ \A k \in 1..Len(git.calls) : git.calls[k].step = GitOrder[k]
    /\ \A k \in 2..Len(git.calls) : Passed(git.calls[k - 1])
    /\ ~git.result.raised
    /\ git.result.returned =>
          /\ git.result.success <=>
                (Len(git.calls) = Len(GitOrder) /\ \A k \in 1..Len(git.calls) : Passed(git.calls[k]))
          /\ ~git.result.success => git.result.message \in GitFailureMessages
          /\ git.calls # <<>>
          /\ Passed(git.calls[Len(git.calls)]) => Len(git.calls) = Len(GitOrder)

\* C22 witness: an execution that made all four calls and returned True after
\* an earlier one returned False.
C22_Witness ==
    /\ git.result.returned
    /\ git.result.success
    /\ Len(git.calls) = 4
    /\ Len(git.log) = 2
    /\ git.log[1] \in GitFailureMessages

ErrorMessages ==
    {"Name is required.", "Company name is required.", "At least one lead is required."}

\* What C23 expects of a rejected submission: an error message, no file
\* created by a load, no table changed.
Rejected ==
    /\ msg' \in ErrorMessages
    /\ files' = files
    /\ present' = present

C24_StageCountsSumToCompanies ==
    insights.stage = Full
    => /\ SeqSum([k \in 1..Len(insights.stage_counts) |-> insights.stage_counts[k]["count"]])
            = Len(insights.companies_df)
       /\ Len(insights.stage_analysis) = Len(insights.companies_df)

====
